---------------------------- MODULE Spec2Model ----------------------------
(***************************************************************************)
(* Model of autogpt/commands/web_selenium.py: the text and link extraction *)
(* pipeline, the driver life cycle of browse_website and                   *)
(* open_website_in_browser, create_driver, and the QA helpers.             *)
(*                                                                         *)
(* Strings of page text are sequences of one-character strings.  A parsed  *)
(* document is a sequence of nodes [tag, text, href, kids]; a "#text" node *)
(* carries characters in text, an element carries child nodes in kids.     *)
(***************************************************************************)
EXTENDS Integers, Sequences, FiniteSets, TLC

\* ------------------------------------------------------------------ bounds

\* Longest visible text drawn as input of the text pipeline.
MaxLen == 5
\* Most top-level nodes of a multi-node body drawn for the text extractor.
MaxNodes == 2
\* Most anchors on a page visited by browse_website.
MaxAnchors == 6
\* Most invocations of a driver-creating routine in one behaviour.
MaxCalls == 2

\* ------------------------------------------------------- characters, strings

Letters == {"a", "b"}
LineBreaks == {"\n", "\r"}
Whitespace == {" ", "\t"} \cup LineBreaks
Chars == Letters \cup Whitespace

RECURSIVE SeqsUpTo(_, _)
SeqsUpTo(S, n) ==
  IF n = 0 THEN {<<>>}
  ELSE LET shorter == SeqsUpTo(S, n - 1)
       IN shorter \cup {Append(s, c) : s \in {t \in shorter : Len(t) = n - 1}, c \in S}

\* str.join: the pieces with sep between consecutive ones.
RECURSIVE Join(_, _)
Join(ss, sep) ==
  IF ss = <<>> THEN <<>>
  ELSE IF Len(ss) = 1 THEN ss[1]
  ELSE ss[1] \o <<sep>> \o Join(Tail(ss), sep)

\* str.strip(): leading and trailing whitespace removed.
RECURSIVE LStrip(_)
LStrip(s) ==
  IF s = <<>> THEN s
  ELSE IF Head(s) \in Whitespace THEN LStrip(Tail(s)) ELSE s

RECURSIVE RStrip(_)
RStrip(s) ==
  IF s = <<>> THEN s
  ELSE IF s[Len(s)] \in Whitespace THEN RStrip(SubSeq(s, 1, Len(s) - 1)) ELSE s

Strip(s) == RStrip(LStrip(s))

\* str.splitlines(): "\r\n" is one break, and a final break opens no line.
RECURSIVE SplitLinesAcc(_, _, _)
SplitLinesAcc(s, cur, out) ==
  IF s = <<>> THEN (IF cur = <<>> THEN out ELSE Append(out, cur))
  ELSE IF Len(s) >= 2 /\ s[1] = "\r" /\ s[2] = "\n"
       THEN SplitLinesAcc(SubSeq(s, 3, Len(s)), <<>>, Append(out, cur))
  ELSE IF Head(s) \in LineBreaks
       THEN SplitLinesAcc(Tail(s), <<>>, Append(out, cur))
  ELSE SplitLinesAcc(Tail(s), Append(cur, Head(s)), out)

SplitLines(s) == SplitLinesAcc(s, <<>>, <<>>)

\* str.split("  "): leftmost non-overlapping matches, "" gives [""].
RECURSIVE SplitPhrasesAcc(_, _, _)
SplitPhrasesAcc(s, cur, out) ==
  IF s = <<>> THEN Append(out, cur)
  ELSE IF Len(s) >= 2 /\ s[1] = " " /\ s[2] = " "
       THEN SplitPhrasesAcc(SubSeq(s, 3, Len(s)), <<>>, Append(out, cur))
  ELSE SplitPhrasesAcc(Tail(s), Append(cur, Head(s)), out)

SplitPhrases(s) == SplitPhrasesAcc(s, <<>>, <<>>)

\* ------------------------------------------------------------ text pipeline

StripAll(ss) == [i \in 1..Len(ss) |-> Strip(ss[i])]

\* lines = (line.strip() for line in text.splitlines())
Lines(text) == StripAll(SplitLines(text))

\* chunks = (phrase.strip() for line in lines for phrase in line.split("  "))
RECURSIVE Chunks(_)
Chunks(lines) ==
  IF lines = <<>> THEN <<>>
  ELSE StripAll(SplitPhrases(Head(lines))) \o Chunks(Tail(lines))

\* A plausible slip: the phrases are not stripped a second time.
RECURSIVE ChunksUnstripped(_)
ChunksUnstripped(lines) ==
  IF lines = <<>> THEN <<>>
  ELSE SplitPhrases(Head(lines)) \o ChunksUnstripped(Tail(lines))

CleanTextUnstripped(text) ==
  Join(SelectSeq(ChunksUnstripped(Lines(text)), LAMBDA c : c # <<>>), "\n")

\* text = "\n".join(chunk for chunk in chunks if chunk)
CleanText(text) ==
  Join(SelectSeq(Chunks(Lines(text)), LAMBDA c : c # <<>>), "\n")

\* ----------------------------------------------------------------- markup

NoHref == [origin |-> "", path |-> ""]
TextNode(s) == [tag |-> "#text", text |-> s, href |-> NoHref, kids |-> <<>>]
Elem(t, ks) == [tag |-> t, text |-> <<>>, href |-> NoHref, kids |-> ks]
Anchor(h, ks) == [tag |-> "a", text |-> <<>>, href |-> h, kids |-> ks]

RemovedTags == {"script", "style"}

\* A plausible slip: only script elements are removed.
RECURSIVE ExtractScriptsOnly(_)
ExtractScriptsOnly(nodes) ==
  IF nodes = <<>> THEN <<>>
  ELSE LET n == Head(nodes)
       IN IF n.tag = "script" THEN ExtractScriptsOnly(Tail(nodes))
          ELSE <<[n EXCEPT !.kids = ExtractScriptsOnly(n.kids)]>>
               \o ExtractScriptsOnly(Tail(nodes))

\* for script in soup(["script", "style"]): script.extract()
RECURSIVE ExtractScripts(_)
ExtractScripts(nodes) ==
  IF nodes = <<>> THEN <<>>
  ELSE LET n == Head(nodes)
       IN IF n.tag \in RemovedTags THEN ExtractScripts(Tail(nodes))
          ELSE <<[n EXCEPT !.kids = ExtractScripts(n.kids)]>>
               \o ExtractScripts(Tail(nodes))

\* soup.get_text(): the text nodes' characters in document order.
RECURSIVE GetText(_)
GetText(nodes) ==
  IF nodes = <<>> THEN <<>>
  ELSE LET n == Head(nodes)
       IN (IF n.tag = "#text" THEN n.text ELSE GetText(n.kids))
          \o GetText(Tail(nodes))

\* scrape_text_with_selenium, from the parsed body to the returned text.
ScrapeText(body) == CleanText(GetText(ExtractScripts(body)))

\* ------------------------------------------------------------------ links

\* The url argument of browse_website, as origin and path.
Url == [origin |-> "https://example.com", path |-> "/page"]

\* urljoin(base_url, href): an href with no origin takes the base's origin.
UrlJoin(base, href) ==
  IF href.origin = "" THEN [origin |-> base.origin, path |-> href.path] ELSE href

\* soup.find_all("a", href=True), in document order.
RECURSIVE FindAnchors(_)
FindAnchors(nodes) ==
  IF nodes = <<>> THEN <<>>
  ELSE LET n == Head(nodes)
       IN (IF n.tag = "a" /\ n.href # NoHref THEN <<n>> ELSE <<>>)
          \o FindAnchors(n.kids) \o FindAnchors(Tail(nodes))

\* extract_hyperlinks(soup, base_url): (text, absolute url) per anchor; an
\* anchor with no text is shown by its url.
ExtractHyperlinks(soup, base) ==
  LET as == FindAnchors(soup)
  IN [i \in 1..Len(as) |->
        LET u == UrlJoin(base, as[i].href)
            t == GetText(as[i].kids)
        IN [text |-> IF t = <<>> THEN <<u.origin, u.path>> ELSE t, url |-> u]]

\* format_hyperlinks(hyperlinks): "text (url)" per pair.
FormatHyperlinks(hyperlinks) ==
  [i \in 1..Len(hyperlinks) |->
     hyperlinks[i].text \o <<" (", hyperlinks[i].url.origin, hyperlinks[i].url.path, ")">>]

RECURSIVE Dedup(_)
Dedup(ss) ==
  IF ss = <<>> THEN <<>>
  ELSE LET front == Dedup(SubSeq(ss, 1, Len(ss) - 1))
           last == ss[Len(ss)]
       IN IF \E i \in 1..Len(front) : front[i] = last THEN front ELSE Append(front, last)

\* A plausible slip: repeated links are reported once.
ScrapeLinksDedup(page_source, url) ==
  Dedup(FormatHyperlinks(ExtractHyperlinks(ExtractScripts(page_source), url)))

\* scrape_links_with_selenium, from the page source to the returned list.
ScrapeLinks(page_source, url) ==
  FormatHyperlinks(ExtractHyperlinks(ExtractScripts(page_source), url))

\* The most links browse_website reports.
LinkLimit == 5

\* A plausible slip: the cut keeps one entry too many.
LimitLinksOffByOne(links) ==
  IF Len(links) > LinkLimit THEN SubSeq(links, 1, LinkLimit + 1) ELSE links

\* if len(links) > 5: links = links[:5]
LimitLinks(links) ==
  IF Len(links) > LinkLimit THEN SubSeq(links, 1, LinkLimit) ELSE links

\* ------------------------------------------------------------------- state

VARIABLES
  cfgBrowser,   \* CFG.selenium_web_browser
  calls,        \* driver-creating routines invoked so far
  routine,      \* the routine running, "none" between calls
  pc,           \* its position
  created,      \* the driver create_driver made in this invocation, 0 if none
  driver,       \* the routine's local (or parameter) driver, 0 if unbound
  driverState,  \* per driver id: "none", "live" or "quit"
  optionsBuilt, \* create_driver has built an options object
  elapsed,      \* time spent in WebDriverWait.until
  bodyPresent,  \* the browser's document has a body element
  page,         \* the page's body, once its markup has been read
  text,         \* the local text of browse_website
  links,        \* the local links of browse_website
  ops,          \* driver operations issued in this invocation, in order
  outcome,      \* "none", "returned" or "raised"
  exc,          \* the exception raised, "" if none
  result,       \* the value returned
  markup,       \* text extractor alone: the body handed to the parser
  soup,         \* text extractor alone: the parsed tree
  docText,      \* text extractor alone: soup.get_text()
  cleaned,      \* text extractor alone: the text returned
  tpc           \* text extractor alone: its position

sessionVars == <<cfgBrowser, calls, routine, pc, created, driver, driverState,
                 optionsBuilt, elapsed, bodyPresent, page, text, links, ops, outcome, exc,
                 result>>
textVars == <<markup, soup, docText, cleaned, tpc>>
vars == <<sessionVars, textVars>>

Browsers == {"chrome", "safari", "firefox", "edge"}

\* A plausible slip: one family is missing from the table.
OptionsAvailableTwo == {"chrome", "firefox"}

\* The keys of options_available.
OptionsAvailable == {"chrome", "safari", "firefox"}

\* WebDriverWait(driver, 10)
WaitTimeout == 10

Creating == {"browse_website", "open_website_in_browser"}
Helpers == {"identify_form_field", "enter_text_into_form_field",
            "navigate_by_click_button", "get_updated_html", "find_button_name",
            "click_button"}

NoResult == [kind |-> "none"]

\* Bodies a visited page may have: anchors with and without href and text.
PageNodes ==
  { Anchor([origin |-> "", path |-> "/about"], <<TextNode(<<"a">>)>>),
    Anchor([origin |-> "https://x.com", path |-> ""], <<>>),
    Anchor(NoHref, <<TextNode(<<"b">>)>>) }
Pages == SeqsUpTo(PageNodes, MaxAnchors)

\* Bodies handed to the text extractor alone: every visible text up to MaxLen
\* as a single text node, and short bodies mixing text, script and style.
Leaves ==
  {TextNode(s) : s \in {<<"a">>, <<"\n">>, <<" ", "b">>}}
  \cup {Elem(t, ks) : t \in RemovedTags, ks \in {<<>>, <<TextNode(<<"a">>)>>}}
Blocks == {Elem("p", ks) : ks \in {<<>>} \cup {<<l>> : l \in Leaves}}
TextBodies ==
  {<<TextNode(s)>> : s \in SeqsUpTo(Chars, MaxLen)}
  \cup SeqsUpTo(Leaves \cup Blocks, MaxNodes)

SessionIdle ==
  /\ calls = 0
  /\ routine = "none"
  /\ pc = "idle"
  /\ created = 0
  /\ driver = 0
  /\ driverState = [d \in 1..MaxCalls |-> "none"]
  /\ optionsBuilt = FALSE
  /\ elapsed = 0
  /\ bodyPresent = FALSE
  /\ page = <<>>
  /\ text = <<>>
  /\ links = <<>>
  /\ ops = <<>>
  /\ outcome = "none"
  /\ exc = ""
  /\ result = NoResult

TextIdle ==
  /\ markup = <<>>
  /\ soup = <<>>
  /\ docText = <<>>
  /\ cleaned = <<>>
  /\ tpc = "idle"

\* ---------------------------------------------------------- driver routines

\* An exception leaves the routine: nothing after the raising line runs.
Raise(e) ==
  /\ outcome' = "raised"
  /\ exc' = e
  /\ pc' = "done"

Issue(op) == ops' = Append(ops, op)

\* The caller invokes browse_website or open_website_in_browser.
Call(r) ==
  /\ pc = "idle"
  /\ calls < MaxCalls
  /\ calls' = calls + 1
  /\ routine' = r
  /\ pc' = "create_lookup"
  /\ UNCHANGED <<cfgBrowser, created, driver, driverState, optionsBuilt, elapsed,
                 page, text, links, ops, outcome, exc, result>>
  /\ UNCHANGED bodyPresent
  /\ UNCHANGED textVars

\* create_driver: options = options_available[CFG.selenium_web_browser]()
CreateLookup ==
  /\ pc = "create_lookup"
  /\ IF cfgBrowser \in OptionsAvailable
     THEN /\ optionsBuilt' = TRUE
          /\ pc' = "create_configure"
          /\ UNCHANGED <<outcome, exc>>
     ELSE /\ Raise("KeyError")
          /\ UNCHANGED optionsBuilt
  /\ UNCHANGED <<cfgBrowser, calls, routine, created, driver, driverState, elapsed,
                 page, text, links, ops, result>>
  /\ UNCHANGED bodyPresent
  /\ UNCHANGED textVars

\* create_driver: options.add_experimental_option and options.add_argument.
\* Only the Chrome options class is sure to have add_experimental_option.
CreateConfigure ==
  /\ pc = "create_configure"
  /\ \/ /\ pc' = "create_launch"
        /\ UNCHANGED <<outcome, exc>>
     \/ /\ cfgBrowser # "chrome"
        /\ Raise("AttributeError")
  /\ UNCHANGED <<cfgBrowser, calls, routine, created, driver, driverState,
                 optionsBuilt, elapsed, page, text, links, ops, result>>
  /\ UNCHANGED bodyPresent
  /\ UNCHANGED textVars

\* create_driver: webdriver.Firefox / Safari / Chrome launches the browser.
CreateLaunch ==
  /\ pc = "create_launch"
  /\ \/ \E d \in 1..MaxCalls :
          /\ driverState[d] = "none"
          /\ \A e \in 1..(d - 1) : driverState[e] # "none"
          /\ driverState' = [driverState EXCEPT ![d] = "live"]
          /\ created' = d
          /\ driver' = d
          /\ Issue("create")
          /\ pc' = "get"
          /\ UNCHANGED <<outcome, exc>>
     \/ /\ Raise("WebDriverException")
        /\ UNCHANGED <<created, driver, driverState, ops>>
  /\ UNCHANGED <<cfgBrowser, calls, routine, optionsBuilt, elapsed, page, text,
                 links, result>>
  /\ UNCHANGED bodyPresent
  /\ UNCHANGED textVars

\* driver.get(url)
Navigate ==
  /\ pc = "get"
  /\ Issue("navigate")
  /\ \/ /\ pc' = "wait"
        /\ elapsed' = 0
        /\ bodyPresent' \in BOOLEAN
        /\ UNCHANGED <<outcome, exc>>
     \/ /\ Raise("WebDriverException")
        /\ UNCHANGED <<elapsed, bodyPresent>>
  /\ UNCHANGED <<cfgBrowser, calls, routine, created, driver, driverState,
                 optionsBuilt, page, text, links, result>>
  /\ UNCHANGED textVars

\* A plausible slip: the markup is read whether or not the wait succeeded.
WaitExpiredIgnored ==
  /\ pc = "wait"
  /\ ~bodyPresent
  /\ elapsed = WaitTimeout
  /\ Issue("wait")
  /\ pc' = IF routine = "browse_website" THEN "read_body" ELSE "return"
  /\ elapsed' = 0
  /\ UNCHANGED <<cfgBrowser, calls, routine, created, driver, driverState,
                 optionsBuilt, page, text, links, outcome, exc, result>>
  /\ UNCHANGED bodyPresent
  /\ UNCHANGED textVars

\* WebDriverWait(driver, 10).until(presence of body): a poll finds the body,
\* and the wait object, with its clock, is dropped.
WaitFound ==
  /\ pc = "wait"
  /\ bodyPresent
  /\ Issue("wait")
  /\ pc' = IF routine = "browse_website" THEN "read_body" ELSE "return"
  /\ elapsed' = 0
  /\ UNCHANGED <<cfgBrowser, calls, routine, created, driver, driverState,
                 optionsBuilt, page, text, links, outcome, exc, result>>
  /\ UNCHANGED bodyPresent
  /\ UNCHANGED textVars

\* The page builds its body while the routine waits.
BodyAppears ==
  /\ pc = "wait"
  /\ ~bodyPresent
  /\ bodyPresent' = TRUE
  /\ UNCHANGED <<cfgBrowser, calls, routine, pc, created, driver, driverState,
                 optionsBuilt, elapsed, page, text, links, ops, outcome, exc, result>>
  /\ UNCHANGED textVars

\* A poll finds no body and the wait goes on.
WaitTick ==
  /\ pc = "wait"
  /\ ~bodyPresent
  /\ elapsed < WaitTimeout
  /\ elapsed' = elapsed + 1
  /\ UNCHANGED <<cfgBrowser, calls, routine, pc, created, driver, driverState,
                 optionsBuilt, page, text, links, ops, outcome, exc, result>>
  /\ UNCHANGED bodyPresent
  /\ UNCHANGED textVars

\* The bound is spent with no body found: until raises TimeoutException.
WaitExpired ==
  /\ pc = "wait"
  /\ ~bodyPresent
  /\ elapsed = WaitTimeout
  /\ Issue("wait")
  /\ Raise("TimeoutException")
  /\ UNCHANGED <<cfgBrowser, calls, routine, created, driver, driverState,
                 optionsBuilt, elapsed, page, text, links, result>>
  /\ UNCHANGED bodyPresent
  /\ UNCHANGED textVars

\* scrape_text_with_selenium from execute_script to its return, and the
\* assignment driver, text = ... in browse_website.
ReadBody ==
  /\ pc = "read_body"
  /\ Issue("read_body")
  /\ \/ \E body \in Pages :
          /\ page' = body
          /\ text' = ScrapeText(body)
          /\ pc' = "add_header"
          /\ UNCHANGED <<outcome, exc>>
     \/ /\ Raise("WebDriverException")
        /\ UNCHANGED <<page, text>>
  /\ UNCHANGED <<cfgBrowser, calls, routine, created, driver, driverState,
                 optionsBuilt, elapsed, links, result>>
  /\ UNCHANGED bodyPresent
  /\ UNCHANGED textVars

\* add_header(driver)
AddHeader ==
  /\ pc = "add_header"
  /\ Issue("inject_header")
  /\ \/ /\ pc' = "summarize"
        /\ UNCHANGED <<outcome, exc>>
     \/ Raise("WebDriverException")
  /\ UNCHANGED <<cfgBrowser, calls, routine, created, driver, driverState,
                 optionsBuilt, elapsed, page, text, links, result>>
  /\ UNCHANGED bodyPresent
  /\ UNCHANGED textVars

\* summary.summarize_text(url, text, question, driver)
Summarize ==
  /\ pc = "summarize"
  /\ Issue("summarize")
  /\ \/ /\ pc' = "links"
        /\ UNCHANGED <<outcome, exc>>
     \/ Raise("SummarizeError")
  /\ UNCHANGED <<cfgBrowser, calls, routine, created, driver, driverState,
                 optionsBuilt, elapsed, page, text, links, result>>
  /\ UNCHANGED bodyPresent
  /\ UNCHANGED textVars

\* A plausible slip: the browser is closed before the links are read.
ScrapeLinksStepClosed ==
  /\ pc = "links"
  /\ ops' = ops \o <<"quit", "read_page_source">>
  /\ driverState' = [driverState EXCEPT ![driver] = "quit"]
  /\ links' = ScrapeLinks(page, Url)
  /\ pc' = "limit"
  /\ UNCHANGED <<cfgBrowser, calls, routine, created, driver, optionsBuilt,
                 elapsed, page, text, outcome, exc, result>>
  /\ UNCHANGED bodyPresent
  /\ UNCHANGED textVars

\* links = scrape_links_with_selenium(driver, url)
ScrapeLinksStep ==
  /\ pc = "links"
  /\ Issue("read_page_source")
  /\ \/ /\ links' = ScrapeLinks(page, Url)
        /\ pc' = "limit"
        /\ UNCHANGED <<outcome, exc>>
     \/ /\ Raise("WebDriverException")
        /\ UNCHANGED links
  /\ UNCHANGED <<cfgBrowser, calls, routine, created, driver, driverState,
                 optionsBuilt, elapsed, page, text, result>>
  /\ UNCHANGED bodyPresent
  /\ UNCHANGED textVars

\* if len(links) > 5: links = links[:5]
LimitLinksStep ==
  /\ pc = "limit"
  /\ links' = LimitLinks(links)
  /\ pc' = "close"
  /\ UNCHANGED <<cfgBrowser, calls, routine, created, driver, driverState,
                 optionsBuilt, elapsed, page, text, ops, outcome, exc, result>>
  /\ UNCHANGED bodyPresent
  /\ UNCHANGED textVars

\* A plausible slip: close_browser leaves the session running.
CloseBrowserNoQuit(states, d) == states

\* close_browser(driver): driver.quit()
CloseBrowser(states, d) == [states EXCEPT ![d] = "quit"]

\* close_browser(driver), as browse_website calls it.
CloseStep ==
  /\ pc = "close"
  /\ Issue("quit")
  /\ driverState' = CloseBrowser(driverState, driver)
  /\ pc' = "return"
  /\ UNCHANGED <<cfgBrowser, calls, routine, created, driver, optionsBuilt,
                 elapsed, page, text, links, exc, outcome, result>>
  /\ UNCHANGED bodyPresent
  /\ UNCHANGED textVars

\* return f"Answer gathered from website: ... Links: {links}", driver
\* return f"Website is now open using the selenium webdriver", driver
Return ==
  /\ pc = "return"
  /\ result' = IF routine = "browse_website"
               THEN [kind |-> "answer", links |-> links, driver |-> driver]
               ELSE [kind |-> "open", links |-> <<>>, driver |-> driver]
  /\ outcome' = "returned"
  /\ pc' = "done"
  /\ UNCHANGED <<cfgBrowser, calls, routine, created, driver, driverState,
                 optionsBuilt, elapsed, page, text, links, ops, exc>>
  /\ UNCHANGED bodyPresent
  /\ UNCHANGED textVars

\* The caller takes the result or the exception; the routine's locals go.
Finish ==
  /\ pc = "done"
  /\ pc' = "idle"
  /\ routine' = "none"
  /\ created' = 0
  /\ driver' = 0
  /\ optionsBuilt' = FALSE
  /\ elapsed' = 0
  /\ bodyPresent' = FALSE
  /\ page' = <<>>
  /\ text' = <<>>
  /\ links' = <<>>
  /\ ops' = <<>>
  /\ outcome' = "none"
  /\ exc' = ""
  /\ result' = NoResult
  /\ UNCHANGED <<cfgBrowser, calls, driverState>>
  /\ UNCHANGED textVars

\* -------------------------------------------------------------- QA helpers

\* A helper runs from call to exit on the driver d the caller passes.  A
\* driver command fails when the session is gone and may fail otherwise.
HelperEnds(h, d, o, e, res) ==
  /\ pc = "idle"
  /\ driverState[d] # "none"
  /\ routine' = h
  /\ driver' = d
  /\ outcome' = o
  /\ exc' = e
  /\ result' = res
  /\ pc' = "done"
  /\ UNCHANGED <<cfgBrowser, calls, created, driverState, optionsBuilt, elapsed,
                 page, text, links, ops>>
  /\ UNCHANGED bodyPresent
  /\ UNCHANGED textVars

MayFail(d) == IF driverState[d] = "quit" THEN {TRUE} ELSE BOOLEAN

Html == [kind |-> "html", links |-> <<>>, driver |-> 0]
Context == [kind |-> "context", links |-> <<>>, driver |-> 0]
ErrorString == [kind |-> "error_string", links |-> <<>>, driver |-> 0]

\* identify_form_field: no try around driver.find_element.
IdentifyFormField ==
  \E d \in 1..MaxCalls : \E fails \in MayFail(d) :
    IF fails THEN HelperEnds("identify_form_field", d, "raised", "WebDriverException", NoResult)
    ELSE HelperEnds("identify_form_field", d, "returned", "", Html)

\* enter_text_into_form_field: no try around the lookups, and field.sendkeys
\* is no method of a web element.
EnterTextIntoFormField ==
  \E d \in 1..MaxCalls : \E fails \in MayFail(d) :
    IF fails THEN HelperEnds("enter_text_into_form_field", d, "raised", "WebDriverException", NoResult)
    ELSE HelperEnds("enter_text_into_form_field", d, "raised", "AttributeError", NoResult)

\* navigate_by_click_button: lookup, click, wait and context under one try.
NavigateByClickButton ==
  \E d \in 1..MaxCalls : \E fails \in MayFail(d) :
    IF fails THEN HelperEnds("navigate_by_click_button", d, "returned", "", ErrorString)
    ELSE HelperEnds("navigate_by_click_button", d, "returned", "", Context)

\* get_updated_html
GetUpdatedHtml ==
  \E d \in 1..MaxCalls : \E fails \in MayFail(d) :
    IF fails THEN HelperEnds("get_updated_html", d, "returned", "", ErrorString)
    ELSE HelperEnds("get_updated_html", d, "returned", "", Context)

\* find_button_name
FindButtonName ==
  \E d \in 1..MaxCalls : \E fails \in MayFail(d) :
    IF fails THEN HelperEnds("find_button_name", d, "returned", "", ErrorString)
    ELSE HelperEnds("find_button_name", d, "returned", "", Context)

\* click_button: find_elements gives a list, which has no text; the
\* AttributeError, like a failed lookup, is caught.
ClickButton ==
  \E d \in 1..MaxCalls :
    HelperEnds("click_button", d, "returned", "", ErrorString)

\* ------------------------------------------------- the text extractor alone

\* soup = BeautifulSoup(page_source, "html.parser")
Parse ==
  /\ tpc = "parse"
  /\ soup' = markup
  /\ tpc' = "extract"
  /\ UNCHANGED <<markup, docText, cleaned>>
  /\ UNCHANGED sessionVars

\* for script in soup(["script", "style"]): script.extract()
Extract ==
  /\ tpc = "extract"
  /\ soup' = ExtractScripts(soup)
  /\ tpc' = "get_text"
  /\ UNCHANGED <<markup, docText, cleaned>>
  /\ UNCHANGED sessionVars

\* text = soup.get_text()
GetTextStep ==
  /\ tpc = "get_text"
  /\ docText' = GetText(soup)
  /\ tpc' = "clean"
  /\ UNCHANGED <<markup, soup, cleaned>>
  /\ UNCHANGED sessionVars

\* lines, chunks, text = "\n".join(...); return driver, text
Clean ==
  /\ tpc = "clean"
  /\ cleaned' = CleanText(docText)
  /\ tpc' = "done"
  /\ UNCHANGED <<markup, soup, docText>>
  /\ UNCHANGED sessionVars

\* ----------------------------------------------------------- specifications

Init ==
  /\ cfgBrowser \in Browsers
  /\ SessionIdle
  /\ TextIdle

Next ==
  \/ \E r \in Creating : Call(r)
  \/ CreateLookup
  \/ CreateConfigure
  \/ CreateLaunch
  \/ Navigate
  \/ BodyAppears
  \/ WaitFound
  \/ WaitTick
  \/ WaitExpired
  \/ ReadBody
  \/ AddHeader
  \/ Summarize
  \/ ScrapeLinksStep
  \/ LimitLinksStep
  \/ CloseStep
  \/ Return
  \/ Finish
  \/ IdentifyFormField
  \/ EnterTextIntoFormField
  \/ NavigateByClickButton
  \/ GetUpdatedHtml
  \/ FindButtonName
  \/ ClickButton

\* The routines of the module, called one at a time.
Spec == Init /\ [][Next]_vars

InitText ==
  /\ cfgBrowser = "chrome"
  /\ SessionIdle
  /\ markup \in TextBodies
  /\ soup = <<>>
  /\ docText = <<>>
  /\ cleaned = <<>>
  /\ tpc = "parse"

NextText ==
  \/ Parse
  \/ Extract
  \/ GetTextStep
  \/ Clean

\* The text extractor on every body of TextBodies.
SpecText == InitText /\ [][NextText]_vars

\* ------------------------------------------------------------------ claims

IsPrefix(p, q) == Len(p) <= Len(q) /\ \A i \in 1..Len(p) : p[i] = q[i]
Occurs(x, ss) == \E i \in 1..Len(ss) : ss[i] = x
Count(x, ss) == Cardinality({i \in 1..Len(ss) : ss[i] = x})
Least(a, b) == IF a <= b THEN a ELSE b
BrowseReturned == routine = "browse_website" /\ pc = "done" /\ outcome = "returned"

\* C1: a routine that creates a driver has quit it by the time it ends, on
\* normal return and on a failure alike.
C1_DriverQuitAtEnd ==
  (routine \in Creating /\ pc = "done" /\ created # 0) => driverState[created] = "quit"

\* C2: the links browse_website reports are the first min(n, 5) of the n
\* formatted links, in order, and never more than 5.
C2_LinksArePrefixOfFive ==
  BrowseReturned =>
    LET formatted == ScrapeLinks(page, Url)
    IN /\ Len(result.links) = Least(Len(formatted), 5)
       /\ IsPrefix(result.links, formatted)
       /\ Len(result.links) <= 5

C2_Witness ==
  /\ BrowseReturned
  /\ Len(ScrapeLinks(page, Url)) > 5
  /\ Len(result.links) = 5

\* The pipeline as the text extractor's contract words it, by positions.
RECURSIVE Concat(_)
Concat(ss) == IF ss = <<>> THEN <<>> ELSE Head(ss) \o Concat(Tail(ss))

\* The k-th smallest member of a set of positions.
Nth(S, k) == CHOOSE x \in S : Cardinality({y \in S : y < x}) = k - 1

\* s cut at separators of width w starting at the positions in starts.
Pieces(s, starts, w) ==
  LET n == Cardinality(starts)
  IN [k \in 1..(n + 1) |->
        SubSeq(s, IF k = 1 THEN 1 ELSE Nth(starts, k - 1) + w,
                  IF k = n + 1 THEN Len(s) ELSE Nth(starts, k) - 1)]

RefStrip(s) ==
  LET solid == {i \in 1..Len(s) : s[i] \notin Whitespace}
  IN IF solid = {} THEN <<>>
     ELSE SubSeq(s, Nth(solid, 1), Nth(solid, Cardinality(solid)))

RefLines(s) == Pieces(s, {i \in 1..Len(s) : s[i] \in LineBreaks}, 1)

\* A two-space separator starts at an even offset into its run of spaces.
RefFragments(s) ==
  LET spacesBefore(i) == Cardinality({j \in 1..(i - 1) : \A m \in j..(i - 1) : s[m] = " "})
      starts == {i \in 1..(Len(s) - 1) :
                   s[i] = " " /\ s[i + 1] = " " /\ spacesBefore(i) % 2 = 0}
  IN Pieces(s, starts, 2)

RefPipeline(s) ==
  LET lines == RefLines(s)
      perLine == [i \in 1..Len(lines) |->
                    LET fs == RefFragments(RefStrip(lines[i]))
                    IN [k \in 1..Len(fs) |-> RefStrip(fs[k])]]
  IN Join(SelectSeq(Concat(perLine), LAMBDA f : f # <<>>), "\n")

\* C3: the returned text is the pipeline of the contract applied to the
\* visible text; no line of it is empty or starts or ends with whitespace.
C3_TextIsReferencePipeline ==
  tpc = "done" =>
    /\ cleaned = RefPipeline(docText)
    /\ \A i \in 1..Len(SplitLines(cleaned)) :
         LET line == SplitLines(cleaned)[i]
         IN /\ line # <<>>
            /\ line[1] \notin Whitespace
            /\ line[Len(line)] \notin Whitespace

C3_Witness ==
  /\ tpc = "done"
  /\ docText = <<" ", "a", " ", " ", "b">>
  /\ cleaned = <<"a", "\n", "b">>

\* Text outside every script and style element.
RECURSIVE HasVisibleText(_)
HasVisibleText(nodes) ==
  \E i \in 1..Len(nodes) :
    \/ nodes[i].tag = "#text" /\ nodes[i].text # <<>>
    \/ nodes[i].tag \notin {"#text", "script", "style"} /\ HasVisibleText(nodes[i].kids)

\* C4: a body with no text outside script and style elements gives the
\* empty text.
C4_ScriptOnlyGivesEmptyText ==
  (tpc = "done" /\ ~HasVisibleText(markup)) => cleaned = <<>>

C4_Witness ==
  /\ tpc = "done"
  /\ ~HasVisibleText(markup)
  /\ \E i \in 1..Len(markup) : markup[i].tag = "style" /\ markup[i].kids # <<>>
  /\ \E i \in 1..Len(markup) : markup[i].tag = "script" /\ markup[i].kids # <<>>
  /\ cleaned = <<>>

\* C5: no QA helper lets an exception reach its caller.
C5_HelpersNeverRaise ==
  routine \in Helpers => outcome # "raised"

\* C6: create_driver raises the lookup error exactly for a browser family
\* outside chrome, safari, firefox, and then before any options object is
\* built or browser launched.
C6_LookupErrorIffUnsupported ==
  LET supported == cfgBrowser \in {"chrome", "safari", "firefox"}
  IN /\ exc = "KeyError" => (~supported /\ ~optionsBuilt /\ created = 0 /\ ops = <<>>)
     /\ supported => exc # "KeyError"
     /\ (~supported /\ routine \in Creating /\ pc # "create_lookup") =>
          (exc = "KeyError" /\ pc = "done")

C6_Witness ==
  /\ routine \in Creating
  /\ exc = "KeyError"
  /\ cfgBrowser = "edge"
  /\ ~optionsBuilt

\* C7: the body's markup is read only after navigation and a wait that found
\* the body within 10; a wait that runs out raises and nothing is read or
\* returned.
C7_MarkupOnlyAfterReadiness ==
  routine = "browse_website" =>
    /\ pc = "wait" => elapsed <= 10
    /\ Occurs("read_body", ops) =>
         /\ SubSeq(ops, 1, 4) = <<"create", "navigate", "wait", "read_body">>
         /\ bodyPresent
         /\ exc # "TimeoutException"
    /\ exc = "TimeoutException" =>
         /\ elapsed = 10
         /\ ~bodyPresent
         /\ ~Occurs("read_body", ops)
         /\ page = <<>> /\ text = <<>>
         /\ outcome = "raised" /\ result = NoResult

C7_Witness ==
  /\ routine = "browse_website"
  /\ exc = "TimeoutException"
  /\ pc = "done"
  /\ elapsed = 10

\* The formatted link of one anchor, taken alone.
LinkOf(anchor) == FormatHyperlinks(ExtractHyperlinks(<<anchor>>, Url))[1]

\* C8: the links keep the anchors' order and multiplicity: the i-th link is
\* that of the i-th anchor with an href, repeated as often as it occurs.
C8_LinksKeepOrderAndMultiplicity ==
  LET anchors == SelectSeq(page, LAMBDA n : n.tag = "a" /\ n.href # NoHref)
      expected == [i \in 1..Len(anchors) |-> LinkOf(anchors[i])]
      firstFive == SubSeq(expected, 1, Least(Len(expected), 5))
  IN /\ (routine = "browse_website" /\ pc = "limit") => links = expected
     /\ BrowseReturned =>
          /\ result.links = firstFive
          /\ \A i \in 1..Len(firstFive) :
               Count(firstFive[i], result.links) = Count(firstFive[i], firstFive)

C8_Witness ==
  /\ BrowseReturned
  /\ Len(result.links) = 5
  /\ result.links[1] = result.links[3]
  /\ result.links[1] # result.links[2]

\* C9: the driver browse_website returns is the one it created, already quit.
C9_ReturnedDriverIsQuit ==
  BrowseReturned =>
    /\ created # 0
    /\ result.driver = created
    /\ driverState[result.driver] = "quit"

C9_Witness ==
  /\ BrowseReturned
  /\ result.driver = 2
  /\ driverState[1] = "live"
  /\ driverState[2] = "quit"

BrowseOrder ==
  <<"create", "navigate", "wait", "read_body", "inject_header", "summarize",
    "read_page_source", "quit">>

\* C10: browse_website issues its driver operations in one fixed order, quit
\* last and once, and the driver is live for every operation before it.
C10_OperationsInOrder ==
  routine = "browse_website" =>
    /\ IsPrefix(ops, BrowseOrder)
    /\ Count("quit", ops) <= 1
    /\ (driver # 0 /\ ~Occurs("quit", ops)) => driverState[driver] = "live"
    /\ Occurs("quit", ops) => (ops[Len(ops)] = "quit" /\ driverState[driver] = "quit")

C10_Witness ==
  /\ routine = "browse_website"
  /\ ops = BrowseOrder
  /\ outcome = "returned"

=============================================================================
